---- MODULE Spec2Model ----
(***************************************************************************)
(* Model of src/app.py, the "Simple English Assistant API": a Flask app    *)
(* with the routes POST /suggest, GET /health, GET /test and GET /.        *)
(*                                                                         *)
(* A text is a sequence of one-character strings, so that strip, replace,  *)
(* upper and lower are computed character by character as Python does.     *)
(* A JSON object (Python dict) is a function from key strings to values.   *)
(* The free-form reply of the completion API is a sequence of segments:    *)
(* brace-free prose, a lone "{", a lone "}", or a well-formed JSON object  *)
(* literal (which starts with "{" and ends with "}").                      *)
(***************************************************************************)
EXTENDS Integers, Sequences, FiniteSets, TLC

\* ------------------------------------------------------------------ bounds
\* longest request text enumerated over Alphabet
MaxTextLen == 5
\* longest external reply, in segments
MaxSegs == 2
\* largest number of suggested replies the external model may send
MaxReplies == 3

\* ------------------------------------------------------- program constants
\* len(user_text) > 500
MaxChars == 500

\* ------------------------------------------------------------------- texts
Alphabet == {" ", "u"}

Whitespace == {" ", "\t", "\n", "\r"}

Lowercase == <<"a","b","c","d","e","f","g","h","i","j","k","l","m",
               "n","o","p","q","r","s","t","u","v","w","x","y","z">>

Uppercase == <<"A","B","C","D","E","F","G","H","I","J","K","L","M",
               "N","O","P","Q","R","S","T","U","V","W","X","Y","Z">>

\* the letter of sequence to at the place c has in sequence from, else c
convert(c, from, to) ==
  LET at == {i \in 1..Len(from) : from[i] = c}
  IN  IF at = {} THEN c ELSE to[CHOOSE i \in at : TRUE]

\* str.upper() of one character
upper(c) == convert(c, Lowercase, Uppercase)

\* str.lower() of a text
lower(s) == [i \in 1..Len(s) |-> convert(s[i], Uppercase, Lowercase)]

SetMin(S) == CHOOSE x \in S : \A y \in S : x <= y

SetMax(S) == CHOOSE x \in S : \A y \in S : x >= y

\* str.lstrip()
RECURSIVE lstrip(_)
lstrip(s) == IF s # <<>> /\ s[1] \in Whitespace THEN lstrip(Tail(s)) ELSE s

\* str.rstrip()
RECURSIVE rstrip(_)
rstrip(s) ==
  IF s # <<>> /\ s[Len(s)] \in Whitespace
  THEN rstrip(SubSeq(s, 1, Len(s) - 1)) ELSE s

\* the text used as it came, untrimmed
strip_untrimmed(s) == s

\* str.strip(): drop leading and trailing whitespace
strip(s) == rstrip(lstrip(s))

\* positions at which old occurs in s
occurrences(s, old) ==
  {i \in 1..(Len(s) - Len(old) + 1) :
     s[i] = old[1] /\ SubSeq(s, i, i + Len(old) - 1) = old}

\* str.replace(old, new) for a non-empty old: the leftmost occurrence is
\* replaced and the scan resumes after it, so occurrences never overlap
RECURSIVE replace(_, _, _)
replace(s, old, new) ==
  LET found == occurrences(s, old)
  IN  IF found = {} THEN s
      ELSE LET i == SetMin(found)
           IN  SubSeq(s, 1, i - 1) \o new
                 \o replace(SubSeq(s, i + Len(old), Len(s)), old, new)

\* s contains sub as a substring (Python: sub in s)
Contains(s, sub) ==
  \E i \in 1..(Len(s) - Len(sub) + 1) : SubSeq(s, i, i + Len(sub) - 1) = sub

Rep(c, n) == [i \in 1..n |-> c]

\* "helo cant meet today"
ExampleText ==
  <<"h","e","l","o"," ","c","a","n","t"," ","m","e","e","t"," ",
    "t","o","d","a","y">>

\* request texts that the enumeration over Alphabet does not reach
SampleTexts ==
  { ExampleText,
    <<"s","a","y"," ","h","e","l","o"," ","u"," ","u"," ","p","l","s"," ","x">>,
    <<"\n"," ","\t">>,
    Rep("a", MaxChars),
    Rep("a", MaxChars + 1),
    <<" ">> \o Rep("a", MaxChars) \o <<"\n">>,
    <<" ">> \o Rep("a", MaxChars + 1) }

Texts == UNION {[1..n -> Alphabet] : n \in 0..MaxTextLen} \cup SampleTexts

\* the ordered substitution table of get_fallback_response
fixes ==
  << << <<" ","h","e","l","o"," ">>, <<" ","h","e","l","l","o"," ">> >>,
     << <<" ","i","m"," ">>,         <<" ","I","'","m"," ">> >>,
     << <<" ","c","a","n","t"," ">>, <<" ","c","a","n","'","t"," ">> >>,
     << <<" ","d","o","n","t"," ">>, <<" ","d","o","n","'","t"," ">> >>,
     << <<" ","w","o","n","t"," ">>, <<" ","w","o","n","'","t"," ">> >>,
     << <<" ","u","r"," ">>,         <<" ","y","o","u","r"," ">> >>,
     << <<" ","u"," ">>,             <<" ","y","o","u"," ">> >>,
     << <<" ","p","l","s"," ">>,     <<" ","p","l","e","a","s","e"," ">> >>,
     << <<" ","t","h","x"," ">>,     <<" ","t","h","a","n","k","s"," ">> >> >>

\* for wrong, right in fixes: cleaned = cleaned.replace(wrong, right)
RECURSIVE apply_fixes(_, _)
apply_fixes(cleaned, i) ==
  IF i > Len(fixes) THEN cleaned
  ELSE apply_fixes(replace(cleaned, fixes[i][1], fixes[i][2]), i + 1)

\* cleaned[0].upper() + cleaned[1:], when cleaned is not empty
capitalize(cleaned) ==
  IF Len(cleaned) > 0 THEN <<upper(cleaned[1])>> \o Tail(cleaned) ELSE cleaned

fallback_replies == <<"Thanks! :)", "Got it, thanks!", "Okay, noted!">>

get_fallback_response(text) ==
  LET cleaned == capitalize(apply_fixes(text, 1))
  IN  [suggested_replies |-> fallback_replies,
       corrected_text    |-> cleaned,
       similar_phrases   |-> <<cleaned,
                               cleaned \o <<"!">>,
                               <<"H","e","y",","," ">> \o lower(cleaned)>>]

\* ------------------------------------------------------------ JSON objects
\* a dict with no key
EmptyDict == [k \in {} |-> 0]

\* d[k] = v
Put(d, k, v) == [j \in (DOMAIN d) \cup {k} |-> IF j = k THEN v ELSE d[j]]

\* required_keys = ["suggested_replies", "corrected_text", "similar_phrases"]
required_keys == {"suggested_replies", "corrected_text", "similar_phrases"}

\* ------------------------------------------- replies of the completion API
ModelText == <<"O","k">>

\* the example object that the prompt itself shows to the model
ExampleObject ==
  [suggested_replies |-> <<"Thanks!", "Got it!", "Okay!">>,
   corrected_text    |-> <<"H","e","l","l","o"," ","t","h","e","r","e">>,
   similar_phrases   |-> << <<"H","i"," ","t","h","e","r","e">>, <<"H","e","y">> >>]

\* an object with the three required keys and n suggested replies
FullObject(n) ==
  [suggested_replies |-> [i \in 1..n |-> "model reply"],
   corrected_text    |-> ModelText,
   similar_phrases   |-> <<ModelText>>]

\* the JSON objects the external model may write into its reply
ModelObjects ==
  { FullObject(n) : n \in 0..MaxReplies }
  \cup { [corrected_text |-> ModelText, similar_phrases |-> <<ModelText>>],
         [suggested_replies |-> <<"a", "b", "c">>, similar_phrases |-> <<ModelText>>],
         [suggested_replies |-> <<"a", "b", "c">>, corrected_text |-> ModelText],
         [suggested_replies |-> <<"a", "b", "c">>, corrected_text |-> ModelText,
          similar_phrases |-> <<ModelText>>, original_text |-> <<"x">>,
          success |-> FALSE, characters_processed |-> 999],
         [suggested_replies |-> <<"a", "b", "c">>, corrected_text |-> ModelText,
          similar_phrases |-> <<ModelText>>, error |-> "model says no"] }

\* what may surround the model's answer: prose, lone braces, and the
\* prompt's example repeated back
Fillers ==
  { [kind |-> "text",   obj |-> EmptyDict],
    [kind |-> "lbrace", obj |-> EmptyDict],
    [kind |-> "rbrace", obj |-> EmptyDict],
    [kind |-> "object", obj |-> ExampleObject] }

\* the pieces a reply's content is made of
Segments == Fillers \cup { [kind |-> "object", obj |-> o] : o \in ModelObjects }

\* the replies: up to MaxSegs segments, at most one of them an answer object
Contents ==
  { c \in UNION {[1..n -> Segments] : n \in 0..MaxSegs} :
      Cardinality({i \in DOMAIN c : c[i] \notin Fillers}) <= 1 }

\* exceptions of openai.ChatCompletion.create and of reading the response
\* other than AuthenticationError and RateLimitError
OtherErrors == {"connection_error", "timeout", "bad_response_shape"}

NoContent == <<>>

\* every outcome of the external call
Outcomes ==
  { [kind |-> k, content |-> NoContent] :
      k \in {"authentication_error", "rate_limit_error"} \cup OtherErrors }
  \cup { [kind |-> "reply", content |-> c] : c \in Contents }

NoOutcome == [kind |-> "not_called", content |-> NoContent]

\* -------------------------------------------------- get_smart_suggestions
\* re.search(r'\{.*\}', content, re.DOTALL): with DOTALL the greedy .* runs
\* from the first "{" to the last "}" of the content; <<>> when no match
re_search(content) ==
  LET opens  == {i \in 1..Len(content) : content[i].kind \in {"lbrace", "object"}}
      closes == {i \in 1..Len(content) : content[i].kind \in {"rbrace", "object"}}
  IN  IF opens = {} \/ closes = {} THEN <<>>
      ELSE IF SetMax(closes) < SetMin(opens) THEN <<>>
      ELSE SubSeq(content, SetMin(opens), SetMax(closes))

\* json.loads of a matched substring: it succeeds on one object literal and
\* on "{}", and raises on anything else
json_loads(m) ==
  IF Len(m) = 1 /\ m[1].kind = "object" THEN [ok |-> TRUE, value |-> m[1].obj]
  ELSE IF Len(m) = 2 /\ m[1].kind = "lbrace" /\ m[2].kind = "rbrace"
       THEN [ok |-> TRUE, value |-> EmptyDict]
       ELSE [ok |-> FALSE, value |-> EmptyDict]

\* a second attempt at the call before giving up
Fallback_retry(user_text, log) ==
  [result |-> get_fallback_response(user_text),
   events |-> <<"api_call">> \o log \o <<"api_call", "fallback">>]

\* the fallback path, with the log lines and calls that lead to it
Fallback(user_text, log) ==
  [result |-> get_fallback_response(user_text),
   events |-> <<"api_call">> \o log \o <<"fallback">>]

\* the parsed object returned without the check of its keys
parse_reply_unchecked(user_text, content) ==
  LET json_match == re_search(content)
  IN  IF json_match # <<>>
      THEN LET parsed == json_loads(json_match)
           IN  IF ~parsed.ok
               THEN Fallback(user_text, <<"log_unexpected_error">>)
               ELSE [result |-> parsed.value, events |-> <<"api_call">>]
      ELSE Fallback(user_text, <<"log_json_failed">>)

\* the try block of get_smart_suggestions once the call has returned content
parse_reply(user_text, content) ==
  LET json_match == re_search(content)
  IN  IF json_match # <<>>
      THEN LET parsed == json_loads(json_match)
           IN  IF ~parsed.ok
               THEN Fallback(user_text, <<"log_unexpected_error">>)
               ELSE IF required_keys \subseteq DOMAIN parsed.value
                    THEN [result |-> parsed.value, events |-> <<"api_call">>]
                    ELSE Fallback(user_text,
                                  <<"log_missing_keys", "log_json_failed">>)
      ELSE Fallback(user_text, <<"log_json_failed">>)

get_smart_suggestions(user_text, outcome) ==
  CASE outcome.kind = "reply" -> parse_reply(user_text, outcome.content)
    [] outcome.kind = "authentication_error" ->
         [result |-> [error |-> "OpenAI API key is invalid",
                      suggested_replies |->
                        <<"Please check API key", "Setup required", "Contact admin">>,
                      corrected_text  |-> user_text,
                      similar_phrases |-> <<user_text>>],
          events |-> <<"api_call", "log_authentication_error">>]
    [] outcome.kind = "rate_limit_error" ->
         [result |-> [error |-> "Rate limit exceeded",
                      suggested_replies |->
                        <<"Try again later", "Server busy", "Please wait">>,
                      corrected_text  |-> user_text,
                      similar_phrases |-> <<user_text>>],
          events |-> <<"api_call", "log_rate_limit">>]
    [] OTHER -> Fallback(user_text, <<"log_unexpected_error">>)

\* ---------------------------------------------------------- POST /suggest
\* request bodies: "malformed" is not parseable as JSON; "empty_dict" is {};
\* "falsy" is other JSON that Python treats as false (null, [], 0, "", false);
\* "non_dict" is any other JSON that is not an object; "no_text" is a
\* non-empty object without "text"; "bad_text" has a "text" that is not a
\* string (null, a number); "text" has a string
Bodies ==
  { [kind |-> k, text |-> <<>>] :
      k \in {"malformed", "empty_dict", "falsy", "non_dict", "no_text", "bad_text"} }
  \cup { [kind |-> "text", text |-> t] : t \in Texts }

\* the except Exception block of suggest
server_error(message) ==
  [status |-> 500,
   body   |-> [error |-> "Internal server error",
               message |-> message,
               original_text |-> "unknown",
               suggested_replies |-> <<"Server error", "Please try again">>,
               corrected_text |-> "Error occurred",
               similar_phrases |-> <<"Try again later">>],
   events |-> <<"log_server_error">>]

\* metadata added with setdefault: keys already in the result are kept
add_metadata_setdefault(result, user_text) ==
  LET keep(d, k, v) == IF k \in DOMAIN d THEN d ELSE Put(d, k, v)
      r1 == keep(result, "original_text", user_text)
      r2 == keep(r1, "success", "error" \notin DOMAIN r1)
  IN  keep(r2, "characters_processed", Len(user_text))

\* result['original_text'], result['success'], result['characters_processed']
add_metadata(result, user_text) ==
  LET r1 == Put(result, "original_text", user_text)
      r2 == Put(r1, "success", "error" \notin DOMAIN r1)
  IN  Put(r2, "characters_processed", Len(user_text))

\* data.get('text', '')
data_get_text(body) == IF body.kind = "text" THEN body.text ELSE <<>>

\* if not data
no_data(body) == body.kind \in {"empty_dict", "falsy"}

\* the cap off by one: 500 characters already rejected
too_long_inclusive(user_text) == Len(user_text) >= MaxChars

\* if len(user_text) > 500
too_long(user_text) == Len(user_text) > MaxChars

suggest(body, outcome) ==
  IF body.kind = "malformed"
  THEN server_error("400 Bad Request")
  ELSE IF no_data(body)
  THEN [status |-> 400,
        body   |-> [error |-> "No JSON data received",
                    solution |-> "Send JSON: {'text': 'your message'}"],
        events |-> <<>>]
  ELSE IF body.kind = "non_dict"
  THEN server_error("object has no attribute 'get'")
  ELSE IF body.kind = "bad_text"
  THEN server_error("object has no attribute 'strip'")
  ELSE LET user_text == strip(data_get_text(body))
       IN  IF user_text = <<>>
           THEN [status |-> 400,
                 body   |-> [error |-> "Empty text",
                             example |-> "Send {'text': 'hello world'}"],
                 events |-> <<>>]
           ELSE IF too_long(user_text)
           THEN [status |-> 400,
                 body   |-> [error |-> "Text too long (max 500 characters)",
                             received_length |-> Len(user_text)],
                 events |-> <<>>]
           ELSE LET g == get_smart_suggestions(user_text, outcome)
                IN  [status |-> 200,
                     body   |-> add_metadata(g.result, user_text),
                     events |-> g.events]

\* ------------------------------------------------------------ other routes
\* openai.api_key = os.getenv("OPENAI_API_KEY"): unset, empty or a key
ApiKeys ==
  { [is_set |-> FALSE, value |-> ""],
    [is_set |-> TRUE,  value |-> ""],
    [is_set |-> TRUE,  value |-> "sk-key"] }

\* openai.api_key is not None
truthy_not_none(key) == key.is_set

\* bool(openai.api_key)
truthy(key) == key.is_set /\ key.value # ""

health(key) ==
  [status |-> 200,
   body   |-> [status  |-> IF truthy(key) THEN "healthy" ELSE "warning_no_key",
               service |-> "English Assistant API",
               version |-> "1.0",
               openai_configured |-> truthy(key),
               endpoints |-> [post_suggest |-> "Get replies + corrections",
                              get_health   |-> "This health check",
                              get_test     |-> "Example response"],
               usage |-> "Send POST to /suggest with {'text': 'your message'}"],
   events |-> <<>>]

test ==
  [status |-> 200,
   body   |-> [original_text  |-> "helo cant meet today sorry",
               corrected_text |-> "Hello, can't meet today, sorry.",
               suggested_replies |-> <<"No worries! Maybe tomorrow? :)",
                                       "Got it, thanks for letting me know!",
                                       "Okay, another time then!">>,
               similar_phrases |-> <<"Hi, unavailable today", "Hey, busy today">>,
               success |-> TRUE,
               characters_processed |-> 26,
               note |-> "This is a static example. Real API calls will vary."],
   events |-> <<>>]

home ==
  [status |-> 200, body |-> [html |-> "English Assistant API"], events |-> <<>>]

\* ------------------------------------------------------------------- state
VARIABLES
  api_key,    \* openai.api_key, read once at startup
  pc,         \* "idle", "received" (a request is in flight) or "responded"
  request,    \* the request in flight
  external,   \* what the completion API did when this request called it
  response,   \* status and JSON body of the response
  events      \* external calls and log lines of the handler, in order

vars == <<api_key, pc, request, external, response, events>>

NoRequest == [route |-> "none", body |-> [kind |-> "none", text |-> <<>>]]

NoResponse == [status |-> 0, body |-> EmptyDict]

Init ==
  /\ api_key \in ApiKeys
  /\ pc = "idle"
  /\ request = NoRequest
  /\ external = NoOutcome
  /\ response = NoResponse
  /\ events = <<>>

\* a client sends POST /suggest
ReceiveSuggest ==
  /\ pc = "idle"
  /\ \E b \in Bodies : request' = [route |-> "suggest", body |-> b]
  /\ pc' = "received"
  /\ UNCHANGED <<api_key, external, response, events>>

\* a client sends GET /health, GET /test or GET /
ReceiveGet ==
  /\ pc = "idle"
  /\ \E r \in {"health", "test", "home"} :
       request' = [route |-> r, body |-> NoRequest.body]
  /\ pc' = "received"
  /\ UNCHANGED <<api_key, external, response, events>>

Handled(r, outcome) ==
  /\ response' = [status |-> r.status, body |-> r.body]
  /\ events' = r.events
  /\ external' = outcome
  /\ pc' = "responded"
  /\ UNCHANGED <<api_key, request>>

\* what openai.ChatCompletion.create (openai==0.28) can do with the key:
\* without a key it raises AuthenticationError before any network traffic;
\* an empty key is sent and refused, unless the network fails first; with a
\* key every outcome is possible
call_outcomes(key) ==
  IF ~key.is_set
  THEN {o \in Outcomes : o.kind = "authentication_error"}
  ELSE IF key.value = ""
       THEN {o \in Outcomes :
               o.kind \in {"authentication_error", "connection_error", "timeout"}}
       ELSE Outcomes

Suggest ==
  /\ pc = "received"
  /\ request.route = "suggest"
  /\ \E outcome \in call_outcomes(api_key) :
       LET r == suggest(request.body, outcome)
       IN  Handled(r, IF r.events # <<>> /\ r.events[1] = "api_call"
                      THEN outcome ELSE NoOutcome)

Health ==
  /\ pc = "received"
  /\ request.route = "health"
  /\ Handled(health(api_key), NoOutcome)

Test ==
  /\ pc = "received"
  /\ request.route = "test"
  /\ Handled(test, NoOutcome)

Home ==
  /\ pc = "received"
  /\ request.route = "home"
  /\ Handled(home, NoOutcome)

\* the response is sent and the server waits for the next request
Send ==
  /\ pc = "responded"
  /\ pc' = "idle"
  /\ request' = NoRequest
  /\ external' = NoOutcome
  /\ response' = NoResponse
  /\ events' = <<>>
  /\ UNCHANGED api_key

Next ==
  \/ ReceiveSuggest
  \/ ReceiveGet
  \/ Suggest
  \/ Health
  \/ Test
  \/ Home
  \/ Send

Spec == Init /\ [][Next]_vars

\* ------------------------------------------------------- claim vocabulary
\* a POST /suggest request has been handled and its response is ready
SuggestDone == pc = "responded" /\ request.route = "suggest"

\* the request text with its surrounding whitespace removed
Trimmed == strip(request.body.text)

AllWhitespace(t) == \A i \in 1..Len(t) : t[i] \in Whitespace

\* the JSON body has a text, non-empty after trimming and within the cap
ValidText ==
  /\ request.body.kind = "text"
  /\ ~AllWhitespace(request.body.text)
  /\ Len(Trimmed) <= 500

Count(seq, e) == Cardinality({i \in 1..Len(seq) : seq[i] = e})

\* the response body that carries the fallback substitution of the input
FallbackBody == add_metadata(get_fallback_response(Trimmed), Trimmed)

\* the external call raised, whatever the exception
CallRaised == external.kind \in
  {"authentication_error", "rate_limit_error"} \cup OtherErrors

\* the first brace-delimited substring of a reply, parsed: from the first
\* "{" to the first "}" that closes it
FirstBraced(content) ==
  LET opens == {i \in 1..Len(content) : content[i].kind \in {"lbrace", "object"}}
  IN  IF opens = {} THEN [ok |-> FALSE, value |-> EmptyDict]
      ELSE LET i == SetMin(opens)
           IN  IF content[i].kind = "object"
               THEN [ok |-> TRUE, value |-> content[i].obj]
               ELSE IF i < Len(content) /\ content[i + 1].kind = "rbrace"
                    THEN [ok |-> TRUE, value |-> EmptyDict]
                    ELSE [ok |-> FALSE, value |-> EmptyDict]

\* the reply carries no usable object: no brace-delimited match, a match
\* that is not one JSON object, or an object that lacks a required key
Unusable(content) ==
  LET m == re_search(content)
  IN  \/ Len(m) # 1
      \/ m[1].kind # "object"
      \/ ~(required_keys \subseteq DOMAIN m[1].obj)

\* ------------------------------------------------------------------ claims
\* C1: every valid POST /suggest (text non-empty after trimming, at most 500
\* characters), whatever the external call did, is answered with HTTP 200,
\* corrected_text, exactly 3 suggested_replies, and original_text equal to
\* the trimmed input.
C1_Claim ==
  (SuggestDone /\ ValidText) =>
    /\ response.status = 200
    /\ {"corrected_text", "suggested_replies", "original_text"}
         \subseteq DOMAIN response.body
    /\ Len(response.body["suggested_replies"]) = 3
    /\ response.body["original_text"] = Trimmed

\* C2: a POST /suggest whose body is not parseable as JSON is answered with
\* HTTP 400, never with HTTP 500.
C2_Claim ==
  (SuggestDone /\ request.body.kind = "malformed") => response.status = 400

\* C3: with no credential and a failed external call, the input
\* "helo cant meet today" yields a corrected_text that contains "hello" and
\* "can't" and starts with a capital letter.
C3_Claim ==
  (SuggestDone /\ ~truthy(api_key) /\ CallRaised /\ Trimmed = ExampleText) =>
    /\ response.status = 200
    /\ Contains(response.body["corrected_text"], <<"h","e","l","l","o">>)
    /\ Contains(response.body["corrected_text"], <<"c","a","n","'","t">>)
    /\ response.body["corrected_text"][1] = "H"

C5_EmptyTextRejected ==
  (SuggestDone
     /\ \/ request.body.kind \in {"empty_dict", "no_text"}
        \/ request.body.kind = "text" /\ AllWhitespace(request.body.text)) =>
    /\ response.status = 400
    /\ "error" \in DOMAIN response.body
    /\ events = <<>>
    /\ external = NoOutcome

\* a text of whitespace only was rejected
C5_Witness ==
  /\ SuggestDone
  /\ request.body.kind = "text"
  /\ Len(request.body.text) >= 2
  /\ AllWhitespace(request.body.text)
  /\ response.status = 400

\* C6: a text longer than 500 characters after trimming is answered with
\* HTTP 400 without calling the external API; exactly 500 trimmed characters
\* are accepted and 501 are rejected.
C6_LengthCap ==
  (SuggestDone /\ request.body.kind = "text") =>
    /\ Len(Trimmed) > 500 =>
         /\ response.status = 400
         /\ Count(events, "api_call") = 0
         /\ external = NoOutcome
    /\ Len(Trimmed) = 500 =>
         /\ response.status = 200
         /\ Count(events, "api_call") = 1
    /\ Len(Trimmed) = 501 => response.status = 400

\* a text of 500 characters inside surrounding whitespace was accepted
C6_Witness ==
  /\ SuggestDone
  /\ request.body.kind = "text"
  /\ Len(request.body.text) > 500
  /\ Len(Trimmed) = 500
  /\ response.status = 200

\* C7: GET /health reports the credential flag false (status warning_no_key)
\* when no credential is set, which includes an empty one, and true (status
\* healthy) otherwise, and never calls the external API.
C7_Health ==
  (pc = "responded" /\ request.route = "health") =>
    /\ response.status = 200
    /\ (~api_key.is_set \/ api_key.value = "") =>
         /\ response.body["openai_configured"] = FALSE
         /\ response.body["status"] = "warning_no_key"
    /\ (api_key.is_set /\ api_key.value # "") =>
         /\ response.body["openai_configured"] = TRUE
         /\ response.body["status"] = "healthy"
    /\ Count(events, "api_call") = 0
    /\ external = NoOutcome

\* /health answered while no credential is set
C7_Witness ==
  /\ pc = "responded"
  /\ request.route = "health"
  /\ ~api_key.is_set
  /\ response.body["openai_configured"] = FALSE
  /\ response.body["status"] = "warning_no_key"

\* C8: a POST /suggest calls the external API at most once, only for an
\* input that passed validation, never for a request answered with 400, and
\* never again after a failure: a failure is followed by at most the one
\* fallback substitution.
C8_SingleAttempt ==
  SuggestDone =>
    /\ Count(events, "api_call") <= 1
    /\ Count(events, "fallback") <= 1
    /\ Count(events, "api_call") = 1 => (ValidText /\ events[1] = "api_call")
    /\ response.status = 400 => Count(events, "api_call") = 0
    /\ Count(events, "fallback") = 1 =>
         /\ events[Len(events)] = "fallback"
         /\ Count(events, "api_call") = 1
    /\ external.kind \in OtherErrors =>
         events = <<"api_call", "log_unexpected_error", "fallback">>

\* a timed-out call was followed by the fallback and nothing else
C8_Witness ==
  /\ SuggestDone
  /\ external.kind = "timeout"
  /\ Count(events, "api_call") = 1
  /\ Count(events, "fallback") = 1

\* C9: the generator parses the first brace-delimited substring of the reply
\* and returns it exactly when it has the three required keys, and returns
\* the fallback result in every other case; an object followed by further
\* text with a closing brace is still accepted.
C9_Claim ==
  (SuggestDone /\ external.kind = "reply") =>
    LET first == FirstBraced(external.content)
    IN  IF first.ok /\ required_keys \subseteq DOMAIN first.value
        THEN response.body = add_metadata(first.value, Trimmed)
        ELSE response.body = FallbackBody

\* C10: in every HTTP 200 response of POST /suggest, success is true exactly
\* when the body has no error key, original_text is the trimmed request
\* text, and characters_processed is its length, between 1 and 500, whatever
\* keys the external model's JSON supplied.
C10_Bookkeeping ==
  (SuggestDone /\ response.status = 200) =>
    /\ response.body["success"] = ("error" \notin DOMAIN response.body)
    /\ response.body["original_text"] = Trimmed
    /\ response.body["characters_processed"] = Len(response.body["original_text"])
    /\ response.body["characters_processed"] \in 1..500

\* the model's JSON supplied its own bookkeeping keys and was accepted
C10_Witness ==
  /\ SuggestDone
  /\ response.status = 200
  /\ external.kind = "reply"
  /\ Len(external.content) = 1
  /\ external.content[1].kind = "object"
  /\ "characters_processed" \in DOMAIN external.content[1].obj
  /\ response.body["suggested_replies"] = <<"a", "b", "c">>
====
